---- MODULE Spec2Model ----
(***************************************************************************)
(* Model of update-index.js: the GitHub repository index generator.       *)
(*                                                                         *)
(* Text is modelled as a sequence of characters, each a string.  The      *)
(* markers, the text the fallback path searches for, white space, pipes   *)
(* and line breaks are spelled character by character; a longer string    *)
(* stands for a run of other characters that no search, escape or trim of *)
(* the script looks into (a URL prefix, a word of a fixed phrase).  The   *)
(* two emoji of the status badge are "U+2705" and "U+274C", the backquote *)
(* is "U+0060".  A JavaScript value that may be null or undefined is an   *)
(* option: None, or Some(v).                                              *)
(***************************************************************************)
EXTENDS Integers, Sequences, FiniteSets, TLC

VARIABLES
    pc,            \* where AppController.run is suspended, or how it ended
    repos,         \* the names returned by the organization listing, in order
    detail,        \* per listed repository: the getRepositoryDetails promise
    outOfOrder,    \* whether a detail promise settled before one listed ahead of it
    repoDetails,   \* the array Promise.all resolved with (records, mutated by the probe loop)
    probe,         \* per listed repository: the checkTranslationCache call
    parseErrors,   \* the call sites at which 'Failed to parse API response' was raised
    tableRows,     \* sortedRepos: the records formatRepositoriesTable rendered, in order
    tableContent,  \* the string handed to FileService.updateReadme
    readme,        \* the content of README.md
    readmeBefore,  \* the content README.md had before the latest updateReadme call
    updatePaths,   \* the branch each updateReadme call took, in call order
    exitCode       \* -1 while running, 0 after a normal end, 1 after process.exit(1)

vars ==
    <<pc, repos, detail, outOfOrder, repoDetails, probe, parseErrors,
      tableRows, tableContent, readme, readmeBefore, updatePaths, exitCode>>

-----------------------------------------------------------------------------
(* Bounds of the model.                                                    *)

\* The longest organization listing.
MaxRepos == 2

\* The longest README.md, in pieces of DocPieces.
MaxDocPieces == 4

\* The number of times the script is run on the same README.md.
MaxCalls == 2

\* The longest input list of the formatting specification.
MaxFormatInput == 3

-----------------------------------------------------------------------------
(* JavaScript values.                                                      *)

None == <<>>

Some(v) == <<v>>

IsSome(o) == o # None

Get(o) == o[1]

\* a || b on strings: a when it is neither null/undefined nor empty.
OrString(o, dflt) == IF IsSome(o) /\ Get(o) # <<>> THEN Get(o) ELSE dflt

\* a || b on arrays: an array is truthy, even when empty.
OrArray(o, dflt) == IF IsSome(o) THEN Get(o) ELSE dflt

\* a ?? b: a unless it is null or undefined.
Nullish(o, p) == IF IsSome(o) THEN o ELSE p

-----------------------------------------------------------------------------
(* Strings.                                                                *)

\* The characters String.prototype.trim removes (those the model's texts hold).
WhiteSpace == {" ", "\n", "\t", "\r"}

\* Whether pat occurs in s at the 0-based index i.
occursAt(s, pat, i) == \A k \in 1..Len(pat) : s[i + k] = pat[k]

\* String.prototype.indexOf(pat, from): the first index >= from, or -1.
RECURSIVE indexOfFrom(_, _, _)
indexOfFrom(s, pat, from) ==
    IF from + Len(pat) > Len(s) THEN -1
    ELSE IF occursAt(s, pat, from) THEN from
    ELSE indexOfFrom(s, pat, from + 1)

\* String.prototype.indexOf: the 0-based index of the first occurrence, or -1.
indexOf(s, pat) == indexOfFrom(s, pat, 0)

\* String.prototype.substring(from, to) and substring(from), 0-based.
substring(s, from, to) == SubSeq(s, from + 1, to)

substringFrom(s, from) == SubSeq(s, from + 1, Len(s))

\* String.prototype.trim.
trim(s) ==
    LET keep == {i \in 1..Len(s) : s[i] \notin WhiteSpace}
    IN  IF keep = {} THEN <<>>
        ELSE LET first == CHOOSE i \in keep : \A j \in keep : i <= j
                 last == CHOOSE i \in keep : \A j \in keep : j <= i
             IN  SubSeq(s, first, last)

\* Array.prototype.join on strings.
RECURSIVE join(_, _)
join(parts, sep) ==
    IF parts = <<>> THEN <<>>
    ELSE IF Len(parts) = 1 THEN parts[1]
    ELSE parts[1] \o sep \o join(Tail(parts), sep)

\* Number to decimal string (template interpolation of a non-negative integer).
RECURSIVE numberToString(_)
numberToString(n) ==
    LET digit == <<"0", "1", "2", "3", "4", "5", "6", "7", "8", "9">>
    IN  IF n < 10 THEN <<digit[n + 1]>>
        ELSE numberToString(n \div 10) \o <<digit[(n % 10) + 1]>>

\* .replace(/\|/g, '\\|'): every pipe is preceded by a backslash.
RECURSIVE escapePipes(_)
escapePipes(s) ==
    IF s = <<>> THEN <<>>
    ELSE (IF Head(s) = "|" THEN <<"\\", "|">> ELSE <<Head(s)>>) \o escapePipes(Tail(s))

\* .replace(/\r?\n/g, ' '): every line break, with the \r before it, becomes a space.
RECURSIVE collapseNewlines(_)
collapseNewlines(s) ==
    IF s = <<>> THEN <<>>
    ELSE IF Head(s) = "\n" THEN <<" ">> \o collapseNewlines(Tail(s))
    ELSE IF Head(s) = "\r" /\ Len(s) >= 2 /\ s[2] = "\n"
        THEN <<" ">> \o collapseNewlines(Tail(Tail(s)))
    ELSE <<Head(s)>> \o collapseNewlines(Tail(s))

-----------------------------------------------------------------------------
(* String.prototype.localeCompare, for the characters a repository name   *)
(* or full name may hold: letters, digits, '-', '.', '_', '/'.  The       *)
(* collation compares the primary weights of the two strings first        *)
(* (punctuation, then digits, then letters, case ignored) and breaks a    *)
(* primary tie by case, lower case first.                                  *)

CollationOrder ==
    <<"_", "-", ".", "/", "0", "1", "2", "3", "4", "5", "6", "7", "8", "9",
      "a", "b", "c", "d", "e", "f", "g", "h", "i", "j", "k", "l", "m",
      "n", "o", "p", "q", "r", "s", "t", "u", "v", "w", "x", "y", "z">>

UpperCase ==
    <<"A", "B", "C", "D", "E", "F", "G", "H", "I", "J", "K", "L", "M",
      "N", "O", "P", "Q", "R", "S", "T", "U", "V", "W", "X", "Y", "Z">>

IsUpper(c) == \E i \in 1..Len(UpperCase) : UpperCase[i] = c

PrimaryWeight(c) ==
    IF IsUpper(c)
    THEN 14 + (CHOOSE i \in 1..Len(UpperCase) : UpperCase[i] = c)
    ELSE CHOOSE i \in 1..Len(CollationOrder) : CollationOrder[i] = c

TertiaryWeight(c) == IF IsUpper(c) THEN 1 ELSE 0

PrimaryKey(s) == [i \in 1..Len(s) |-> PrimaryWeight(s[i])]

TertiaryKey(s) == [i \in 1..Len(s) |-> TertiaryWeight(s[i])]

\* Lexicographic comparison of two sequences of weights: -1, 0 or 1.
RECURSIVE compareKeys(_, _)
compareKeys(a, b) ==
    IF a = <<>> /\ b = <<>> THEN 0
    ELSE IF a = <<>> THEN -1
    ELSE IF b = <<>> THEN 1
    ELSE IF Head(a) < Head(b) THEN -1
    ELSE IF Head(a) > Head(b) THEN 1
    ELSE compareKeys(Tail(a), Tail(b))

localeCompare(a, b) ==
    LET primary == compareKeys(PrimaryKey(a), PrimaryKey(b))
    IN  IF primary # 0 THEN primary ELSE compareKeys(TertiaryKey(a), TertiaryKey(b))

-----------------------------------------------------------------------------
(* Configuration.                                                          *)

organization == <<"Project-Translation">>

excludedRepos == {<<"i","n","d","e","x">>}

tableHeader ==
    <<"|", " ", "P", "r", "o", "j", "e", "c", "t", " ",
      "|", " ", "Original", " ", "Repository", " ",
      "|", " ", "Description", " ", "|", " ", "Stars", " ",
      "|", " ", "Tags", " ", "|", " ", "Status", " ", "|", "\n",
      "|", " ", "---", " ", "|", " ", "---", " ", "|", " ", "---", " ",
      "|", " ", "---", " ", "|", " ", "---", " ", "|", " ", "---", " ", "|">>

tableStartMarker ==
    <<"<","!","-","-"," ","T","A","B","L","E","_","S","T","A","R","T"," ",
      "-","-",">">>

tableEndMarker ==
    <<"<","!","-","-"," ","T","A","B","L","E","_","E","N","D"," ","-","-",
      ">">>

NoDescription == <<"No", " ", "description">>

\* The prose the fallback path writes when the document has no '| Project'.
DefaultHeader == <<"#", " ", "index", "\n", "Index", " ", "of", " ", "translations.">>

\* The text the fallback path's regular expression looks ahead for.
ProjectPrefix ==
    <<"|"," ","P","r","o","j","e","c","t">>

TopicsUrl == <<"https://github.com/topics/">>

BadgeTranslated == <<"U+2705", " ", "Translated">>

BadgeNotTranslated == <<"U+274C", " ", "Not", " ", "Translated">>

NotAvailable == <<"N/A">>

-----------------------------------------------------------------------------
(* RepositoryModel.                                                        *)

\* RepositoryModel with the parent's topics falling back to the embedded
\* summary's, as its description and star count do.
RepositoryModelEmbeddedTopics(data, parentData) ==
    [name |-> data.name,
     fullName |-> data.full_name,
     url |-> data.html_url,
     description |-> OrString(data.description, NoDescription),
     isFork |-> data.fork,
     stars |-> data.stargazers_count,
     parent |->
        IF IsSome(data.parent)
        THEN LET embedded == Get(data.parent)
                 fresh == IF IsSome(parentData) THEN Get(parentData)
                          ELSE [description |-> None, stargazers_count |-> None,
                                topics |-> None]
             IN  Some([fullName |-> embedded.full_name,
                       url |-> embedded.html_url,
                       owner |-> embedded.owner,
                       description |->
                          OrString(fresh.description,
                                   OrString(embedded.description, NoDescription)),
                       stars |->
                          Get(Nullish(fresh.stargazers_count,
                                      Nullish(embedded.stargazers_count, Some(0)))),
                       topics |-> OrArray(fresh.topics, OrArray(embedded.topics, <<>>))])
        ELSE None,
     language |-> data.language,
     topics |-> OrArray(data.topics, <<>>),
     owner |-> data.owner,
     isTranslated |-> FALSE]

\* new RepositoryModel(data, parentData): data is the repository's API
\* response, parentData the parent's own API response or None.
RepositoryModel(data, parentData) ==
    [name |-> data.name,
     fullName |-> data.full_name,
     url |-> data.html_url,
     description |-> OrString(data.description, NoDescription),
     isFork |-> data.fork,
     stars |-> data.stargazers_count,
     parent |->
        IF IsSome(data.parent)
        THEN LET embedded == Get(data.parent)
                 freshDescription ==
                    IF IsSome(parentData) THEN Get(parentData).description ELSE None
                 freshStars ==
                    IF IsSome(parentData) THEN Get(parentData).stargazers_count ELSE None
                 freshTopics ==
                    IF IsSome(parentData) THEN Get(parentData).topics ELSE None
             IN  Some([fullName |-> embedded.full_name,
                       url |-> embedded.html_url,
                       owner |-> embedded.owner,
                       description |->
                          OrString(freshDescription,
                                   OrString(embedded.description, NoDescription)),
                       stars |->
                          Get(Nullish(freshStars,
                                      Nullish(embedded.stargazers_count, Some(0)))),
                       topics |-> OrArray(freshTopics, <<>>)])
        ELSE None,
     language |-> data.language,
     topics |-> OrArray(data.topics, <<>>),
     owner |-> data.owner,
     isTranslated |-> FALSE]

-----------------------------------------------------------------------------
(* RepositoryService.                                                      *)

\* filterRepositories without the exclusion test.
RECURSIVE filterRepositoriesNoExclusion(_)
filterRepositoriesNoExclusion(repositories) ==
    IF repositories = <<>> THEN <<>>
    ELSE LET repo == Head(repositories)
             keep == repo.isFork /\ IsSome(repo.parent)
         IN  (IF keep THEN <<repo>> ELSE <<>>)
             \o filterRepositoriesNoExclusion(Tail(repositories))

\* Array.prototype.filter with the predicate of filterRepositories.
RECURSIVE filterRepositories(_)
filterRepositories(repositories) ==
    IF repositories = <<>> THEN <<>>
    ELSE LET repo == Head(repositories)
             keep == IF repo.name \in excludedRepos
                     THEN FALSE
                     ELSE repo.isFork /\ IsSome(repo.parent)
         IN  (IF keep THEN <<repo>> ELSE <<>>) \o filterRepositories(Tail(repositories))

\* projectGroups without the has() test: a later fork of the same upstream
\* replaces the earlier one.
RECURSIVE projectGroupsLastWins(_, _)
projectGroupsLastWins(groups, repositories) ==
    IF repositories = <<>> THEN groups
    ELSE LET repo == Head(repositories)
         IN  IF ~IsSome(repo.parent)
             THEN projectGroupsLastWins(groups, Tail(repositories))
             ELSE LET projectKey == Get(repo.parent).fullName
                      has == \E i \in 1..Len(groups) :
                                Get(groups[i].parent).fullName = projectKey
                  IN  projectGroupsLastWins(
                          IF has
                          THEN [i \in 1..Len(groups) |->
                                  IF Get(groups[i].parent).fullName = projectKey
                                  THEN repo ELSE groups[i]]
                          ELSE Append(groups, repo),
                          Tail(repositories))

\* The values of projectGroups in insertion order, after the forEach has
\* visited repositories, starting from the values in groups.
RECURSIVE projectGroups(_, _)
projectGroups(groups, repositories) ==
    IF repositories = <<>> THEN groups
    ELSE LET repo == Head(repositories)
         IN  IF ~IsSome(repo.parent)
             THEN projectGroups(groups, Tail(repositories))
             ELSE LET projectKey == Get(repo.parent).fullName
                      has == \E i \in 1..Len(groups) :
                                Get(groups[i].parent).fullName = projectKey
                  IN  projectGroups(IF has THEN groups ELSE Append(groups, repo),
                                    Tail(repositories))

\* compareRepos comparing the upstreams' names instead of the forks'.
compareReposByUpstream(a, b) ==
    localeCompare(Get(a.parent).fullName, Get(b.parent).fullName)

\* The comparator handed to Array.prototype.sort.
compareRepos(a, b) == localeCompare(a.name, b.name)

\* Array.prototype.sort (stable) as an insertion sort with compareRepos.
RECURSIVE insertSorted(_, _)
insertSorted(sorted, repo) ==
    IF sorted = <<>> THEN <<repo>>
    ELSE IF compareRepos(Head(sorted), repo) <= 0
        THEN <<Head(sorted)>> \o insertSorted(Tail(sorted), repo)
        ELSE <<repo>> \o sorted

RECURSIVE sortRepos(_)
sortRepos(list) ==
    IF list = <<>> THEN <<>>
    ELSE insertSorted(sortRepos(SubSeq(list, 1, Len(list) - 1)), list[Len(list)])

\* sortedRepos of formatRepositoriesTable: one record per row, in row order.
sortedRepos(repositories) == sortRepos(projectGroups(<<>>, repositories))

topicLink(topic) ==
    <<"[", "U+0060">> \o topic \o <<"U+0060", "]", "(">> \o TopicsUrl \o topic \o <<")">>

\* One iteration of the rendering forEach: the row of repo.
renderRow(repo) ==
    LET parentRepo == Get(repo.parent)
        description ==
            collapseNewlines(escapePipes(
                IF parentRepo.description # <<>> THEN parentRepo.description
                ELSE NoDescription))
        tags == join([i \in 1..Len(parentRepo.topics) |-> topicLink(parentRepo.topics[i])],
                     <<",", " ">>)
        statusBadge == IF repo.isTranslated THEN BadgeTranslated ELSE BadgeNotTranslated
    IN  <<"|", " ", "[">> \o repo.name \o <<"]", "(">> \o repo.url \o <<")", " ">>
        \o <<"|", " ", "[">> \o parentRepo.fullName \o <<"]", "(">> \o parentRepo.url
        \o <<")", " ">>
        \o <<"|", " ">> \o description \o <<" ">>
        \o <<"|", " ">> \o numberToString(parentRepo.stars) \o <<" ">>
        \o <<"|", " ">> \o (IF tags # <<>> THEN tags ELSE NotAvailable) \o <<" ">>
        \o <<"|", " ">> \o statusBadge \o <<" ">>
        \o <<"|", "\n">>

RECURSIVE renderRows(_)
renderRows(rows) ==
    IF rows = <<>> THEN <<>> ELSE renderRow(Head(rows)) \o renderRows(Tail(rows))

formatRepositoriesTable(repositories) == renderRows(sortedRepos(repositories))

-----------------------------------------------------------------------------
(* FileService.                                                            *)

\* Whether updateReadme takes the marker branch on readmeContent.
markersFound(readmeContent) ==
    LET startIndex == indexOf(readmeContent, tableStartMarker)
        endIndex == indexOf(readmeContent, tableEndMarker)
    IN  ~(startIndex = -1 \/ endIndex = -1 \/ startIndex >= endIndex)

\* readmeContent.match(/^([\s\S]*?)(?=\| Project)/m): the text before the
\* first '| Project', or None when the document holds none.
headerMatch(readmeContent) ==
    LET at == indexOf(readmeContent, ProjectPrefix)
    IN  IF at = -1 THEN None ELSE Some(substring(readmeContent, 0, at))

\* updateReadme writing the spliced document as it is, without trim().
updateReadmeUntrimmed(readmeContent, table) ==
    LET startIndex == indexOf(readmeContent, tableStartMarker)
        endIndex == indexOf(readmeContent, tableEndMarker)
    IN  IF markersFound(readmeContent)
        THEN substring(readmeContent, 0, startIndex)
             \o tableStartMarker \o <<"\n">> \o tableHeader \o <<"\n">>
             \o table \o tableEndMarker
             \o substringFrom(readmeContent, endIndex + Len(tableEndMarker))
        ELSE LET m == headerMatch(readmeContent)
                 header == IF IsSome(m) THEN trim(Get(m)) ELSE DefaultHeader
             IN  header \o <<"\n", "\n">> \o tableHeader \o <<"\n">> \o table

\* The string updateReadme hands to writeFileSync.
updateReadme(readmeContent, table) ==
    LET startIndex == indexOf(readmeContent, tableStartMarker)
        endIndex == indexOf(readmeContent, tableEndMarker)
        replaced ==
            IF markersFound(readmeContent)
            THEN LET newTableSection ==
                        tableStartMarker \o <<"\n">> \o tableHeader \o <<"\n">>
                        \o table \o tableEndMarker
                 IN  substring(readmeContent, 0, startIndex) \o newTableSection
                     \o substringFrom(readmeContent, endIndex + Len(tableEndMarker))
            ELSE LET m == headerMatch(readmeContent)
                     header == IF IsSome(m) THEN trim(Get(m)) ELSE DefaultHeader
                 IN  header \o <<"\n", "\n">> \o tableHeader \o <<"\n">> \o table
    IN  trim(replaced) \o <<"\n">>

-----------------------------------------------------------------------------
(* The GitHub API, as the script sees it.                                  *)

\* How fetchFromGitHub rejects: a 404 status, another status, a transport
\* error, or a status-200 body that JSON.parse refuses.
FailureKinds == {"notFound", "status", "transport", "parse"}

htmlUrl(fullName) == <<"https://github.com/">> \o fullName

\* The summary of a parent that a fork's own response embeds.
EmbeddedParent(fullName, description, stars, topics) ==
    [full_name |-> fullName,
     html_url |-> htmlUrl(fullName),
     owner |-> <<"u">>,
     description |-> description,
     stargazers_count |-> stars,
     topics |-> topics]

\* The response of GET /repos/Project-Translation/<name>.
RepositoryResponse(name, fork, parent) ==
    [name |-> name,
     full_name |-> organization \o <<"/">> \o name,
     html_url |-> htmlUrl(organization \o <<"/">> \o name),
     description |-> None,
     fork |-> fork,
     stargazers_count |-> 0,
     parent |-> parent,
     language |-> None,
     topics |-> Some(<<>>),
     owner |-> organization]

\* The response of GET /repos/<parent full name>: the fields the script reads.
ParentResponse(description, stars, topics) ==
    [description |-> description, stargazers_count |-> stars, topics |-> topics]

\* The repositories the organization may hold, in the order the API lists
\* them, and the upstreams they may fork.
OrgRepos == <<
    <<"i","n","d","e","x">>,
    <<"B">>,
    <<"a">>>>

ParentNames == {<<"u","/","x">>, <<"u","/","y">>}

\* What GET /repos/Project-Translation/<name> may answer in a run.
RepositoryResponses(name) ==
    {RepositoryResponse(name, fork, parent) :
        fork \in BOOLEAN,
        parent \in {None} \cup
            {Some(EmbeddedParent(p, Some(<<"e">>), Some(1), None)) : p \in ParentNames}}

\* What GET /repos/<parent> may answer in a run.
ParentResponses == {ParentResponse(Some(<<"e">>), Some(1), Some(<<>>))}

\* What GET .../contents/.translation-cache may answer with status 200: an
\* array (a directory listing), or an object whose type is 'dir' or 'file'.
ContentsResponses == {"array", "dir", "file"}

\* The subsequences of q of length at most n, the order of q kept.
RECURSIVE SubSeqs(_, _)
SubSeqs(q, n) ==
    IF q = <<>> \/ n = 0 THEN {<<>>}
    ELSE SubSeqs(Tail(q), n) \cup {<<Head(q)>> \o r : r \in SubSeqs(Tail(q), n - 1)}

\* What GET /orgs/Project-Translation/repos may answer in a run: the
\* organization's repositories in the API's order, some of them.
Listings == SubSeqs(OrgRepos, MaxRepos)

-----------------------------------------------------------------------------
(* GitHubApiClient and AppController.run.                                  *)

noteParseError(site, kind) ==
    IF kind = "parse" THEN parseErrors \cup {site} ELSE parseErrors

\* Whether promise i settles while one listed ahead of it is still pending.
settlesOutOfOrder(i) ==
    outOfOrder \/ \E j \in 1..(i - 1) : detail[j].state \in {"primary", "parent"}

\* process.exit(1) in the catch block of run.
Abort ==
    /\ pc' = "exited"
    /\ exitCode' = 1

\* Array.isArray(contents) || (contents && contents.type === 'dir').
isDirectory(contents) == contents \in {"array", "dir"}

\* The array Promise.all resolves with: the promises' values in the order of
\* the promises, whatever order they settled in.
promiseAll(d) == [i \in 1..Len(d) |-> Get(d[i].value)]

\* probeLoopStart, had the loop mapped the records to calls without
\* awaiting each: every call is issued at once.
probeLoopStartAll(n) == [i \in 1..n |-> "info"]

\* The probe loop entered with n records: the first call is issued, no other.
probeLoopStart(n) == [i \in 1..n |-> IF i = 1 THEN "info" ELSE "pending"]

\* FileService.updateReadme(table): README.md is read, rewritten and written
\* back.  README.md is readable and writable in the runs modelled.
WriteReadme(table) ==
    /\ readme' = updateReadme(readme, table)
    /\ readmeBefore' = readme
    /\ updatePaths' = Append(updatePaths,
            IF markersFound(readme) THEN "markers" ELSE "fallback")

\* The synchronous tail of run: filter, format, updateReadme.
Finish(rd) ==
    LET filteredRepos == filterRepositories(rd)
    IN  /\ tableRows' = sortedRepos(filteredRepos)
        /\ tableContent' = formatRepositoriesTable(filteredRepos)
        /\ WriteReadme(formatRepositoriesTable(filteredRepos))
        /\ pc' = "done"
        /\ exitCode' = 0

\* The probe loop after the call for record i has returned.
ContinueLoop(i, rd, p) ==
    /\ repoDetails' = rd
    /\ IF i < Len(rd)
       THEN /\ probe' = [p EXCEPT ![i + 1] = "info"]
            /\ UNCHANGED <<pc, exitCode, tableRows, tableContent, readme,
                           readmeBefore, updatePaths>>
       ELSE /\ probe' = p
            /\ Finish(rd)

\* getRepositoryDetails(repos[i]) returns `record`; when it was the last one
\* pending, Promise.all resolves and the probe loop begins.
ResolveDetail(i, record) ==
    LET d == [detail EXCEPT ![i] = [state |-> "resolved", data |-> None,
                                    value |-> Some(record)]]
    IN  /\ detail' = d
        /\ outOfOrder' = settlesOutOfOrder(i)
        /\ IF \A j \in 1..Len(d) : d[j].state = "resolved"
           THEN LET rd == promiseAll(d)
                IN  /\ repoDetails' = rd
                    /\ probe' = probeLoopStart(Len(rd))
                    /\ pc' = "probing"
                    /\ UNCHANGED <<exitCode, tableRows, tableContent, readme,
                                   readmeBefore, updatePaths>>
           ELSE UNCHANGED <<repoDetails, probe, pc, exitCode, tableRows,
                            tableContent, readme, readmeBefore, updatePaths>>

\* getOrganizationRepositories rejects: logged, rethrown, caught by run.
ListingFails(kind) ==
    /\ pc = "listing"
    /\ parseErrors' = noteParseError("list", kind)
    /\ Abort
    /\ UNCHANGED <<repos, detail, outOfOrder, repoDetails, probe, tableRows,
                   tableContent, readme, readmeBefore, updatePaths>>

\* The listing arrives: one getRepositoryDetails call per name is issued.
\* An empty listing runs through to the document update at once.
ListingOk(names) ==
    /\ pc = "listing"
    /\ repos' = names
    /\ detail' = [i \in 1..Len(names) |->
                    [state |-> "primary", data |-> None, value |-> None]]
    /\ UNCHANGED <<outOfOrder, parseErrors>>
    /\ IF names = <<>>
       THEN /\ repoDetails' = <<>>
            /\ probe' = <<>>
            /\ Finish(<<>>)
       ELSE /\ pc' = "details"
            /\ UNCHANGED <<repoDetails, probe, exitCode, tableRows, tableContent,
                           readme, readmeBefore, updatePaths>>

\* DetailPrimaryFails, had run joined the promises with allSettled: the
\* rejection is recorded and the run goes on.
DetailPrimaryFailsTolerated(i, kind) ==
    /\ pc = "details"
    /\ detail[i].state = "primary"
    /\ detail' = [detail EXCEPT ![i].state = "rejected"]
    /\ outOfOrder' = settlesOutOfOrder(i)
    /\ parseErrors' = noteParseError("detail", kind)
    /\ UNCHANGED <<pc, exitCode, repos, repoDetails, probe, tableRows,
                   tableContent, readme, readmeBefore, updatePaths>>

\* The primary fetch of getRepositoryDetails rejects: logged and rethrown,
\* Promise.all rejects, run's catch block exits.
DetailPrimaryFails(i, kind) ==
    /\ pc = "details"
    /\ detail[i].state = "primary"
    /\ detail' = [detail EXCEPT ![i].state = "rejected"]
    /\ outOfOrder' = settlesOutOfOrder(i)
    /\ parseErrors' = noteParseError("detail", kind)
    /\ Abort
    /\ UNCHANGED <<repos, repoDetails, probe, tableRows, tableContent, readme,
                   readmeBefore, updatePaths>>

\* The primary fetch answers: a fork with a parent has its parent fetched,
\* any other repository is returned at once.
DetailPrimaryOk(i, data) ==
    /\ pc = "details"
    /\ detail[i].state = "primary"
    /\ UNCHANGED <<repos, parseErrors>>
    /\ IF data.fork /\ IsSome(data.parent)
       THEN /\ detail' = [detail EXCEPT ![i] = [state |-> "parent",
                                                data |-> Some(data),
                                                value |-> None]]
            /\ UNCHANGED <<outOfOrder, repoDetails, probe, pc, exitCode,
                           tableRows, tableContent, readme, readmeBefore,
                           updatePaths>>
       ELSE ResolveDetail(i, RepositoryModel(data, None))

\* The parent fetch answers.
DetailParentOk(i, parentData) ==
    /\ pc = "details"
    /\ detail[i].state = "parent"
    /\ UNCHANGED <<repos, parseErrors>>
    /\ ResolveDetail(i, RepositoryModel(Get(detail[i].data), Some(parentData)))

\* DetailParentFails, had the parent fetch no try block of its own: the
\* rejection is rethrown by the outer catch block and run exits.
DetailParentFailsFatal(i, kind) ==
    /\ pc = "details"
    /\ detail[i].state = "parent"
    /\ parseErrors' = noteParseError("parent", kind)
    /\ Abort
    /\ UNCHANGED <<repos, detail, outOfOrder, repoDetails, probe, tableRows,
                   tableContent, readme, readmeBefore, updatePaths>>

\* The parent fetch rejects: logged, and the record is built without it.
DetailParentFails(i, kind) ==
    /\ pc = "details"
    /\ detail[i].state = "parent"
    /\ parseErrors' = noteParseError("parent", kind)
    /\ UNCHANGED repos
    /\ ResolveDetail(i, RepositoryModel(Get(detail[i].data), None))

\* checkTranslationCache: the repository fetch answers, the contents fetch
\* is issued.
ProbeInfoOk(i) ==
    /\ pc = "probing"
    /\ probe[i] = "info"
    /\ probe' = [probe EXCEPT ![i] = "contents"]
    /\ UNCHANGED <<pc, repos, detail, outOfOrder, repoDetails, parseErrors,
                   tableRows, tableContent, readme, readmeBefore, updatePaths,
                   exitCode>>

\* checkTranslationCache: the contents fetch answers, the call returns
\* isDirectory and the loop goes on.
ProbeContentsOk(i, contents) ==
    /\ pc = "probing"
    /\ probe[i] = "contents"
    /\ UNCHANGED <<repos, detail, outOfOrder, parseErrors>>
    /\ ContinueLoop(i,
                    [repoDetails EXCEPT ![i].isTranslated = isDirectory(contents)],
                    [probe EXCEPT ![i] = "returned"])

\* ProbeFails, had checkTranslationCache no catch block: the rejection
\* reaches run's catch block.
ProbeFailsRethrown(i, kind) ==
    /\ pc = "probing"
    /\ probe[i] \in {"info", "contents"}
    /\ parseErrors' = noteParseError("probe", kind)
    /\ probe' = [probe EXCEPT ![i] = "caught"]
    /\ Abort
    /\ UNCHANGED <<repos, detail, outOfOrder, repoDetails, tableRows,
                   tableContent, readme, readmeBefore, updatePaths>>

\* checkTranslationCache: either fetch rejects; the catch block returns
\* false (a 404 silently, anything else after logging it).
ProbeFails(i, kind) ==
    /\ pc = "probing"
    /\ probe[i] \in {"info", "contents"}
    /\ parseErrors' = noteParseError("probe", kind)
    /\ UNCHANGED <<repos, detail, outOfOrder>>
    /\ ContinueLoop(i,
                    [repoDetails EXCEPT ![i].isTranslated = FALSE],
                    [probe EXCEPT ![i] = "caught"])

-----------------------------------------------------------------------------
(* A run of the script.                                                    *)

\* README.md as a run finds it.
InitialReadme ==
    <<"#", " ", "index", "\n", "\n">> \o tableStartMarker \o <<"\n">>
    \o tableEndMarker \o <<"\n">>

\* run() has issued the organization listing and awaits it.
Init ==
    /\ pc = "listing"
    /\ repos = <<>>
    /\ detail = <<>>
    /\ outOfOrder = FALSE
    /\ repoDetails = <<>>
    /\ probe = <<>>
    /\ parseErrors = {}
    /\ tableRows = <<>>
    /\ tableContent = <<>>
    /\ readme = InitialReadme
    /\ readmeBefore = readme
    /\ updatePaths = <<>>
    /\ exitCode = -1

Next ==
    \/ \E kind \in FailureKinds : ListingFails(kind)
    \/ \E names \in Listings :
            ListingOk(names)
    \/ \E i \in 1..Len(repos), kind \in FailureKinds : DetailPrimaryFails(i, kind)
    \/ \E i \in 1..Len(repos) :
            \E data \in RepositoryResponses(repos[i]) : DetailPrimaryOk(i, data)
    \/ \E i \in 1..Len(repos), parentData \in ParentResponses :
            DetailParentOk(i, parentData)
    \/ \E i \in 1..Len(repos), kind \in FailureKinds :
            DetailParentFails(i, kind)
    \/ \E i \in 1..Len(repos) : ProbeInfoOk(i)
    \/ \E i \in 1..Len(repos), contents \in ContentsResponses :
            ProbeContentsOk(i, contents)
    \/ \E i \in 1..Len(repos), kind \in FailureKinds :
            ProbeFails(i, kind)

Spec == Init /\ [][Next]_vars

-----------------------------------------------------------------------------
(* getRepositoryDetails on its own: one listed repository, every shape of  *)
(* its response and of its parent's.                                       *)

OptionalDescriptions == {None, Some(<<>>), Some(<<"e">>)}

EmbeddedParents ==
    {EmbeddedParent(<<"u","/","x">>, description, stars, topics) :
        description \in OptionalDescriptions,
        stars \in {None, Some(0), Some(1)},
        topics \in {None, Some(<<<<"t">>>>)}}

DetailResponses(name) ==
    {RepositoryResponse(name, fork, parent) :
        fork \in BOOLEAN, parent \in {None} \cup {Some(e) : e \in EmbeddedParents}}

FreshParentResponses ==
    {ParentResponse(description, stars, topics) :
        description \in {None, Some(<<>>), Some(<<"f">>)},
        stars \in {None, Some(0), Some(2)},
        topics \in {None, Some(<<>>), Some(<<<<"s">>>>)}}

InitDetails ==
    /\ pc = "details"
    /\ repos \in {<<OrgRepos[k]>> : k \in 1..Len(OrgRepos)}
    /\ detail = <<[state |-> "primary", data |-> None, value |-> None]>>
    /\ outOfOrder = FALSE
    /\ repoDetails = <<>>
    /\ probe = <<>>
    /\ parseErrors = {}
    /\ tableRows = <<>>
    /\ tableContent = <<>>
    /\ readme = InitialReadme
    /\ readmeBefore = readme
    /\ updatePaths = <<>>
    /\ exitCode = -1

NextDetails ==
    \/ \E kind \in FailureKinds : DetailPrimaryFails(1, kind)
    \/ \E data \in DetailResponses(repos[1]) : DetailPrimaryOk(1, data)
    \/ \E parentData \in FreshParentResponses : DetailParentOk(1, parentData)
    \/ \E kind \in FailureKinds : DetailParentFails(1, kind)

SpecDetails == InitDetails /\ [][NextDetails]_vars

-----------------------------------------------------------------------------
(* The end of a run on its own: the last probe is in flight, the records   *)
(* are forks under every choice and order of names.                        *)

FormatNames == {<<"a">>, <<"A">>, <<"B">>, <<"b">>, <<"a","-","b">>}

FormatParents == ParentNames \cup {<<"u","/","z">>}

\* The record getRepositoryDetails builds for a fork `name` of `parentName`.
ForkRecord(name, parentName) ==
    RepositoryModel(
        RepositoryResponse(name, TRUE,
            Some(EmbeddedParent(parentName, Some(<<"e">>), Some(1), None))),
        Some(ParentResponse(Some(<<"e">>), Some(1), Some(<<>>))))

\* Lists of at most n fork records, no name twice.
RECURSIVE ForkLists(_)
ForkLists(n) ==
    IF n = 0 THEN {<<>>}
    ELSE LET shorter == ForkLists(n - 1)
         IN  shorter \cup
             {Append(l, ForkRecord(name, parentName)) :
                l \in {k \in shorter : Len(k) = n - 1 /\
                                        \A i, j \in 1..Len(k) : i # j => k[i].name # k[j].name},
                name \in FormatNames,
                parentName \in FormatParents}

InitFormat ==
    \E l \in ForkLists(MaxFormatInput) :
        /\ l # <<>>
        /\ \A i, j \in 1..Len(l) : i # j => l[i].name # l[j].name
        /\ pc = "probing"
        /\ repos = [i \in 1..Len(l) |-> l[i].name]
        /\ detail = [i \in 1..Len(l) |->
                        [state |-> "resolved", data |-> None, value |-> Some(l[i])]]
        /\ outOfOrder = FALSE
        /\ repoDetails = l
        /\ probe = [i \in 1..Len(l) |-> IF i < Len(l) THEN "returned" ELSE "contents"]
        /\ parseErrors = {}
        /\ tableRows = <<>>
        /\ tableContent = <<>>
        /\ readme = InitialReadme
        /\ readmeBefore = readme
        /\ updatePaths = <<>>
        /\ exitCode = -1

NextFormat ==
    \/ \E i \in 1..Len(repos), contents \in ContentsResponses :
            ProbeContentsOk(i, contents)
    \/ \E i \in 1..Len(repos), kind \in FailureKinds : ProbeFails(i, kind)

SpecFormat == InitFormat /\ [][NextFormat]_vars

-----------------------------------------------------------------------------
(* FileService.updateReadme on its own: every small README.md, the table   *)
(* of every small set of records, the script run again on its own output.  *)

\* What README.md is made of.
DocPieces ==
    {tableStartMarker, tableEndMarker, <<" ">>, <<"\n">>, ProjectPrefix}

RECURSIVE Docs(_)
Docs(n) ==
    IF n = 0 THEN {<<>>}
    ELSE LET shorter == Docs(n - 1)
         IN  shorter \cup {d \o piece : d \in shorter, piece \in DocPieces}

\* A fork whose upstream has the given description.
DescribedFork(description) ==
    RepositoryModel(
        RepositoryResponse(<<"a">>, TRUE,
            Some(EmbeddedParent(<<"u","/","x">>, None, Some(1), None))),
        Some(ParentResponse(Some(description), Some(1), Some(<<>>))))

\* The tables of: no fork; a fork of a plainly described upstream; a fork
\* of an upstream whose description holds a marker.
Tables ==
    {formatRepositoriesTable(<<>>)} \cup
    {formatRepositoriesTable(<<DescribedFork(description)>>) :
        description \in {<<"e">>, tableStartMarker, tableEndMarker}}

\* One run's updateReadme call, the table being that of unchanged records.
UpdateReadmeCall ==
    /\ pc = "update"
    /\ Len(updatePaths) < MaxCalls
    /\ WriteReadme(tableContent)
    /\ UNCHANGED <<pc, repos, detail, outOfOrder, repoDetails, probe,
                   parseErrors, tableRows, tableContent, exitCode>>

InitReadme ==
    /\ pc = "update"
    /\ repos = <<>>
    /\ detail = <<>>
    /\ outOfOrder = FALSE
    /\ repoDetails = <<>>
    /\ probe = <<>>
    /\ parseErrors = {}
    /\ tableRows = <<>>
    /\ tableContent \in Tables
    /\ readme \in Docs(MaxDocPieces)
    /\ readmeBefore = readme
    /\ updatePaths = <<>>
    /\ exitCode = -1

NextReadme == UpdateReadmeCall

SpecReadme == InitReadme /\ [][NextReadme]_vars

-----------------------------------------------------------------------------
(* Properties.                                                             *)

Probed(i) == probe[i] \in {"returned", "caught"}

InFlight(i) == probe[i] \in {"info", "contents"}

\* A record that filterRepositories keeps.
Listable(repo) ==
    repo.isFork /\ IsSome(repo.parent) /\ repo.name # <<"i","n","d","e","x">>

ListingFailed == pc = "exited" /\ repos = <<>>

Untouched == updatePaths = <<>> /\ readme = InitialReadme

\* C1: a cache probe that fails, for whatever reason, never aborts the run:
\* the record's isTranslated is false, the process has not exited, the next
\* repository's probe has been issued, and after the last repository the
\* document has been filtered, formatted and written.
C1_ProbeFailureNeverAborts ==
    \A i \in 1..Len(probe) :
        probe[i] = "caught" =>
            /\ repoDetails[i].isTranslated = FALSE
            /\ pc \in {"probing", "done"}
            /\ exitCode # 1
            /\ IF i < Len(probe)
               THEN probe[i + 1] # "pending"
               ELSE pc = "done" /\ exitCode = 0 /\ Len(updatePaths) = 1

\* A run that ended normally although the first probe failed on an
\* unparsable body; the second repository was probed and found translated.
C1_Witness ==
    /\ pc = "done"
    /\ Len(probe) = 2
    /\ probe[1] = "caught"
    /\ "probe" \in parseErrors
    /\ probe[2] = "returned"
    /\ repoDetails[2].isTranslated
    /\ Len(updatePaths) = 1

\* C2: once getRepositoryDetails has rejected for one repository, the run
\* has exited with status 1, no cache probe was issued and the document was
\* not written, however many other detail fetches succeeded.
C2_DetailAllOrNothing ==
    (\E i \in 1..Len(detail) : detail[i].state = "rejected") =>
        /\ pc = "exited"
        /\ exitCode = 1
        /\ probe = <<>>
        /\ repoDetails = <<>>
        /\ Untouched

\* One detail fetch was rejected after another had succeeded.
C2_Witness ==
    /\ \E i \in 1..Len(detail) : detail[i].state = "rejected"
    /\ \E j \in 1..Len(detail) : detail[j].state = "resolved"
    /\ pc = "exited"

\* C3: at most one checkTranslationCache call is in flight; a call has been
\* issued for a repository only when the calls for all repositories listed
\* before it have completed; the i-th call is for the i-th listed
\* repository; no call is issued before every detail fetch has completed.
C3_ProbesSequential ==
    /\ Cardinality({i \in 1..Len(probe) : InFlight(i)}) <= 1
    /\ \A i, j \in 1..Len(probe) : (i < j /\ probe[j] # "pending") => Probed(i)
    /\ \A i \in 1..Len(probe) : repoDetails[i].name = repos[i]
    /\ (\E i \in 1..Len(probe) : probe[i] # "pending") =>
            \A j \in 1..Len(detail) : detail[j].state = "resolved"

\* The second probe is in flight after the first has completed.
C3_Witness ==
    /\ Len(probe) = 2
    /\ Probed(1)
    /\ InFlight(2)

\* The indices, in listing order, of the records that reach formatRepositoriesTable.
FormatInput == {i \in 1..Len(repoDetails) : Listable(repoDetails[i])}

UpstreamOf(i) == Get(repoDetails[i].parent).fullName

\* C4: the table holds exactly one row per distinct upstream among the
\* records handed to formatRepositoriesTable, and the row of an upstream is
\* that of the fork listed first among those handed over that share it,
\* whatever order the detail fetches completed in.
C4_FirstSeenWins ==
    pc = "done" =>
        /\ Len(tableRows) = Cardinality({UpstreamOf(i) : i \in FormatInput})
        /\ \A i \in FormatInput :
              LET first == CHOOSE k \in FormatInput :
                              /\ UpstreamOf(k) = UpstreamOf(i)
                              /\ \A m \in FormatInput :
                                    UpstreamOf(m) = UpstreamOf(i) => k <= m
                  rowsOfUpstream == {r \in 1..Len(tableRows) :
                                        Get(tableRows[r].parent).fullName = UpstreamOf(i)}
              IN  /\ Cardinality(rowsOfUpstream) = 1
                  /\ \A r \in rowsOfUpstream : tableRows[r].name = repos[first]

\* Two forks of one upstream, the later listed one's details arriving
\* first: the single row is that of the fork listed first.
C4_Witness ==
    /\ pc = "done"
    /\ outOfOrder
    /\ Len(repos) = 2
    /\ FormatInput = {1, 2}
    /\ UpstreamOf(1) = UpstreamOf(2)
    /\ Len(tableRows) = 1
    /\ tableRows[1].name = repos[1]

\* C5: the rows are in ascending order of the fork's own name under
\* localeCompare: no row's name compares greater than the next row's.
C5_RowsSortedByForkName ==
    pc = "done" =>
        \A r \in 1..(Len(tableRows) - 1) :
            localeCompare(tableRows[r].name, tableRows[r + 1].name) <= 0

\* Three forks listed B, a, A come out a, A, B: neither the listing order
\* nor the order of the character codes.
C5_Witness ==
    /\ pc = "done"
    /\ repos = <<<<"B">>, <<"a">>, <<"A">>>>
    /\ \A i, j \in 1..3 : i # j => UpstreamOf(i) # UpstreamOf(j)
    /\ [r \in 1..Len(tableRows) |-> tableRows[r].name] = <<<<"a">>, <<"A">>, <<"B">>>>

\* C6: every row of the written table is that of a record that is a fork,
\* has a parent and is not named 'index'; a record that is not a fork, has
\* no parent or is named 'index' has no row, even when it is listed first
\* among the forks of its upstream; and the table written is those rows.
C6_OnlyListableRows ==
    pc = "done" =>
        /\ \A r \in 1..Len(tableRows) :
              \E i \in 1..Len(repoDetails) :
                 /\ repoDetails[i] = tableRows[r]
                 /\ repoDetails[i].isFork
                 /\ IsSome(repoDetails[i].parent)
                 /\ repoDetails[i].name \notin excludedRepos
        /\ \A i \in 1..Len(repoDetails) :
              ~Listable(repoDetails[i]) =>
                 \A r \in 1..Len(tableRows) : tableRows[r].name # repoDetails[i].name
        /\ tableContent = renderRows(tableRows)
        /\ indexOf(readme, tableContent) # -1

\* 'index', itself a fork, is listed ahead of another fork of the same
\* upstream: the row is the other fork's.
C6_Witness ==
    /\ pc = "done"
    /\ Len(repoDetails) = 2
    /\ repoDetails[1].name = <<"i","n","d","e","x">>
    /\ repoDetails[1].isFork
    /\ IsSome(repoDetails[1].parent)
    /\ Listable(repoDetails[2])
    /\ UpstreamOf(1) = UpstreamOf(2)
    /\ Len(tableRows) = 1
    /\ tableRows[1].name = repoDetails[2].name

\* String.prototype.trimStart and trimEnd.
RECURSIVE trimStart(_)
trimStart(s) ==
    IF s # <<>> /\ Head(s) \in WhiteSpace THEN trimStart(Tail(s)) ELSE s

RECURSIVE trimEnd(_)
trimEnd(s) ==
    IF s # <<>> /\ s[Len(s)] \in WhiteSpace THEN trimEnd(SubSeq(s, 1, Len(s) - 1)) ELSE s

\* The text of a document before its first start marker, and after its
\* first end marker.
TextBefore(doc) == SubSeq(doc, 1, indexOf(doc, tableStartMarker))

TextAfter(doc) ==
    SubSeq(doc, indexOf(doc, tableEndMarker) + Len(tableEndMarker) + 1, Len(doc))

NewTableSection ==
    tableStartMarker \o <<"\n">> \o tableHeader \o <<"\n">> \o tableContent
    \o tableEndMarker

LastPath == updatePaths[Len(updatePaths)]

\* C7 (as claimed): if the first updateReadme call took the marker path, a
\* second call with the same table leaves README.md as the first wrote it.
C7_Idempotent ==
    (Len(updatePaths) = 2 /\ updatePaths[1] = "markers") => readme = readmeBefore

\* What holds of the code: the second call changes nothing when the table
\* does not itself hold the end marker.
C7_IdempotentWithoutEndMarker ==
    (/\ Len(updatePaths) >= 2
     /\ updatePaths[1] = "markers"
     /\ indexOf(tableContent, tableEndMarker) = -1) => readme = readmeBefore

\* C8 (as claimed): when the parent fetch answers, each field the answer
\* holds is the record's; when it fails a record is still returned and each
\* field is the embedded summary's, or the default when that is absent.
C8_Original ==
    [][\A i \in 1..Len(detail) :
          detail[i].state = "parent" =>
            LET embedded == Get(Get(detail[i].data).parent)
            IN  /\ \A fresh \in FreshParentResponses :
                      DetailParentOk(i, fresh) =>
                        LET built == Get(Get(detail'[i].value).parent)
                        IN  /\ IsSome(fresh.description) =>
                                  built.description = Get(fresh.description)
                            /\ IsSome(fresh.stargazers_count) =>
                                  built.stars = Get(fresh.stargazers_count)
                            /\ IsSome(fresh.topics) => built.topics = Get(fresh.topics)
                /\ \A kind \in FailureKinds :
                      DetailParentFails(i, kind) =>
                        LET built == Get(Get(detail'[i].value).parent)
                        IN  /\ detail'[i].state = "resolved"
                            /\ built.description =
                                  IF IsSome(embedded.description)
                                  THEN Get(embedded.description) ELSE NoDescription
                            /\ built.stars =
                                  IF IsSome(embedded.stargazers_count)
                                  THEN Get(embedded.stargazers_count) ELSE 0
                            /\ built.topics =
                                  IF IsSome(embedded.topics)
                                  THEN Get(embedded.topics) ELSE <<>>
      ]_vars

Present(description) == IsSome(description) /\ Get(description) # <<>>

\* C8 (amended): the description is the fetched parent's when the fetch
\* answered with a non-empty one, else the embedded summary's when that is
\* non-empty, else 'No description'; the star count is the fetched
\* parent's when the fetch answered with one, else the embedded one, else
\* 0; the topics are the fetched parent's when the fetch answered with
\* some, and empty otherwise, whatever the embedded summary holds.  A
\* failed parent fetch still yields a record.
C8_ParentFields ==
    [][\A i \in 1..Len(detail) :
          detail[i].state = "parent" =>
            LET embedded == Get(Get(detail[i].data).parent)
                fallbackDescription ==
                    IF Present(embedded.description)
                    THEN Get(embedded.description) ELSE NoDescription
                fallbackStars ==
                    IF IsSome(embedded.stargazers_count)
                    THEN Get(embedded.stargazers_count) ELSE 0
            IN  /\ \A fresh \in FreshParentResponses :
                      DetailParentOk(i, fresh) =>
                        LET built == Get(Get(detail'[i].value).parent)
                        IN  /\ detail'[i].state = "resolved"
                            /\ built.description =
                                  IF Present(fresh.description)
                                  THEN Get(fresh.description) ELSE fallbackDescription
                            /\ built.stars =
                                  IF IsSome(fresh.stargazers_count)
                                  THEN Get(fresh.stargazers_count) ELSE fallbackStars
                            /\ built.topics =
                                  IF IsSome(fresh.topics) THEN Get(fresh.topics) ELSE <<>>
                /\ \A kind \in FailureKinds :
                      DetailParentFails(i, kind) =>
                        LET built == Get(Get(detail'[i].value).parent)
                        IN  /\ detail'[i].state = "resolved"
                            /\ pc' # "exited"
                            /\ built.description = fallbackDescription
                            /\ built.stars = fallbackStars
                            /\ built.topics = <<>>
      ]_vars

\* The parent fetch failed on an unparsable body and the record was built
\* from the embedded summary: its description and star count, no topics.
C8_Witness ==
    /\ "parent" \in parseErrors
    /\ Len(detail) = 1
    /\ detail[1].state = "resolved"
    /\ Get(Get(detail[1].value).parent).description = <<"e">>
    /\ Get(Get(detail[1].value).parent).stars = 1
    /\ Get(Get(detail[1].value).parent).topics = <<>>

\* C9 (as claimed): on the marker path the written document is the text
\* before the start marker, the new table section, and the text after the
\* end marker, every character outside the markers as it was.
C9_Original ==
    (updatePaths # <<>> /\ LastPath = "markers") =>
        readme = TextBefore(readmeBefore) \o NewTableSection \o TextAfter(readmeBefore)

\* C9 (amended): on the marker path the written document is the text
\* before the start marker less its leading white space, the new table
\* section, the text after the end marker less its trailing white space,
\* and one line break.
C9_MarkerPathFrame ==
    (updatePaths # <<>> /\ LastPath = "markers") =>
        readme = trimStart(TextBefore(readmeBefore)) \o NewTableSection
                 \o trimEnd(TextAfter(readmeBefore)) \o <<"\n">>

\* A document with white space before the start marker and, after the end
\* marker, text that ends without a line break, was updated with a table
\* of one row.
C9_Witness ==
    /\ Len(updatePaths) = 1
    /\ updatePaths[1] = "markers"
    /\ readmeBefore[1] = " "
    /\ TextAfter(readmeBefore) = ProjectPrefix
    /\ tableContent # <<>>

\* C10 (as claimed): a run in which a status-200 body could not be parsed,
\* in whichever call, does not end normally and writes no document.
C10_Original ==
    parseErrors # {} => (pc # "done" /\ updatePaths = <<>>)

\* C10 (amended): an unparsable body is fatal in the organization listing
\* and in the primary detail fetch (exit status 1, nothing probed, nothing
\* written); in the parent fetch and in the cache probe it is caught where
\* it occurs: the run exits only when the listing or a primary detail
\* fetch failed.
C10_ParseErrors ==
    /\ (parseErrors \cap {"list", "detail"} # {}) =>
            /\ pc = "exited"
            /\ exitCode = 1
            /\ probe = <<>>
            /\ Untouched
    /\ pc = "exited" =>
            \/ repos = <<>>
            \/ \E i \in 1..Len(detail) : detail[i].state = "rejected"
    /\ \A i \in 1..Len(probe) :
            ("probe" \in parseErrors /\ probe[i] = "caught") =>
                repoDetails[i].isTranslated = FALSE

\* A run that ended normally, the document written, although a parent
\* fetch and a cache probe each met an unparsable body.
C10_Witness ==
    /\ pc = "done"
    /\ parseErrors = {"parent", "probe"}
    /\ Len(updatePaths) = 1

====
